---- MODULE Spec2Model ----
(***************************************************************************)
(* A model of matplotlib_sample.py: the sample data generator, the seven   *)
(* chart builders and main(), together with the process state they act on: *)
(* numpy's global random source, pyplot's figure registry and current      *)
(* figure, the working directory and standard output.                      *)
(*                                                                         *)
(* Text that the program transforms (chart names, file names, output       *)
(* lines) is a sequence of one-character strings, so that lower(),         *)
(* replace() and the f-strings are computed as the code computes them.     *)
(***************************************************************************)
EXTENDS Integers, Sequences, FiniteSets, TLC

VARIABLES
    pc,         \* main()'s position
    rng,        \* numpy's global random source: [seed, pos]
    data,       \* main()'s local `data` (the bundle), NoData before it is set
    returned,   \* the bundles create_sample_data has returned, in call order
    figs,       \* the figure objects, by the builder that created them
    gcf,        \* pyplot's current figure (the builder that created it)
    tpc,        \* per builder: how many of its steps have run
    plots,      \* main()'s dict `plots`: a sequence of <<name, figure>> entries
    idx,        \* position of the running loop / dict display in main()
    fs,         \* the working directory: file name -> content
    writes,     \* the file names savefig has persisted, in order
    stdout,     \* the lines printed so far
    shown,      \* plt.show() has returned
    exc,        \* the exception that ended main(): NoExc, or where it was raised
    drawn,      \* random values consumed by callers outside create_sample_data
    calls       \* the functions main() has called, in call order

vars == <<pc, rng, data, returned, figs, gcf, tpc, plots, idx, fs, writes,
          stdout, shown, exc, drawn, calls>>

----------------------------------------------------------------------------
(* Bounds of the model *)

\* initial states of the random source: seeds 0..MaxSeed and the seed 42
MaxSeed == 1
\* ... each having already produced 0..MaxPos values
MaxPos == 1
\* create_sample_data is invoked at most MaxCalls times by a library user
MaxCalls == 3
\* a library user draws at most MaxDrawn values in all, 1..MaxDrawn at a time
MaxDrawn == 2

----------------------------------------------------------------------------
(* Text *)

UpperCase ==
    <<"A", "B", "C", "D", "E", "F", "G", "H", "I", "J", "K", "L", "M",
      "N", "O", "P", "Q", "R", "S", "T", "U", "V", "W", "X", "Y", "Z">>

LowerCase ==
    <<"a", "b", "c", "d", "e", "f", "g", "h", "i", "j", "k", "l", "m",
      "n", "o", "p", "q", "r", "s", "t", "u", "v", "w", "x", "y", "z">>

\* str.lower() on one character
LowerChar(c) ==
    IF \E i \in 1..26 : UpperCase[i] = c
      THEN LowerCase[CHOOSE i \in 1..26 : UpperCase[i] = c]
      ELSE c

\* str.lower()
lower(s) == [i \in 1..Len(s) |-> LowerChar(s[i])]

\* str.replace(old, new) for one-character old and new
replace(s, old, new) == [i \in 1..Len(s) |-> IF s[i] = old THEN new ELSE s[i]]

\* FileName with the call of lower() left out
FileName_nolower(name) == replace(name, " ", "_") \o <<".", "p", "n", "g">>

\* f"{name.lower().replace(' ', '_')}.png"
FileName(name) == replace(lower(name), " ", "_") \o <<".", "p", "n", "g">>

\* the lines print(s) adds to standard output: s is cut at each "\n"
RECURSIVE SplitLines(_)
SplitLines(s) ==
    IF \E i \in 1..Len(s) : s[i] = "\n"
      THEN LET i == CHOOSE j \in 1..Len(s) :
                        s[j] = "\n" /\ \A k \in 1..(j - 1) : s[k] # "\n"
           IN  <<SubSeq(s, 1, i - 1)>> \o SplitLines(SubSeq(s, i + 1, Len(s)))
      ELSE <<s>>

\* print(s)
print(out, s) == out \o SplitLines(s)

Digit == <<"0", "1", "2", "3", "4", "5", "6", "7", "8", "9">>

\* f'{n}' for an integer n >= 0
RECURSIVE IntToStr(_)
IntToStr(n) ==
    IF n < 10 THEN <<Digit[n + 1]>>
              ELSE IntToStr(n \div 10) \o <<Digit[(n % 10) + 1]>>

HeaderLine ==
    <<"G", "e", "n", "e", "r", "a", "t", "i", "n", "g", " ", "m", "a", "t",
      "p", "l", "o", "t", "l", "i", "b", " ", "s", "a", "m", "p", "l", "e",
      " ", "v", "i", "s", "u", "a", "l", "i", "z", "a", "t", "i", "o", "n",
      "s", ".", ".", ".">>

SavedPrefix == <<"S", "a", "v", "e", "d", ":", " ">>

SuccessText ==
    <<"\n", "A", "l", "l", " ", "p", "l", "o", "t", "s", " ", "g", "e", "n",
      "e", "r", "a", "t", "e", "d", " ", "s", "u", "c", "c", "e", "s", "s",
      "f", "u", "l", "l", "y", "!">>

FilesSavedText == <<"F", "i", "l", "e", "s", " ", "s", "a", "v", "e", "d", ":">>

ListPrefix == <<" ", " ", "-", " ">>

----------------------------------------------------------------------------
(* numpy's global random source.  Its state is the seed it was last given  *)
(* and the number of values produced since; the stream is a fixed function *)
(* of both.                                                                *)

RawModulus == 65536

Raw(seed, pos) == (seed * 7919 + pos * 31 + pos * pos * (seed + 1)) % RawModulus

\* np.random.seed(s)
Seeded(s) == [seed |-> s, pos |-> 0]

\* the random source after producing n values
Advance(r, n) == [r EXCEPT !.pos = @ + n]

\* randn returning one value too few
randn_short(r, n) ==
    [i \in 1..(n - 1) |-> Raw(r.seed, r.pos + i) - (RawModulus \div 2)]

\* np.random.randn(n) / np.random.normal(0, 1, n): n signed values
randn(r, n) == [i \in 1..n |-> Raw(r.seed, r.pos + i) - (RawModulus \div 2)]

\* np.random.rand(n): n values in [0, 1), scaled by RawModulus
rand(r, n) == [i \in 1..n |-> Raw(r.seed, r.pos + i)]

\* np.random.uniform(lo, hi, n): n values in [lo, hi), scaled by RawModulus
uniform(r, lo, hi, n) ==
    [i \in 1..n |-> lo * RawModulus + (hi - lo) * Raw(r.seed, r.pos + i)]

\* the states the random source can be in when the program starts
InitialRng ==
    {[seed |-> s, pos |-> p] : s \in (0..MaxSeed) \cup {42}, p \in 0..MaxPos}

----------------------------------------------------------------------------
(* create_sample_data *)

SEED == 42
LINE_POINTS == 100
n_points == 50
HIST_POINTS == 1000

\* np.linspace(lo, hi, n), each value scaled by n - 1
linspace(lo, hi, n) == [i \in 1..n |-> lo * (n - 1) + (i - 1) * (hi - lo)]

\* np.sin(x), np.cos(x), ... elementwise: the value is the application itself
apply(fn, x) == [i \in 1..Len(x) |-> <<fn, x[i]>>]

NoData == [x_line |-> <<>>]

\* create_sample_data without its np.random.seed(42): the source stays as
\* the caller left it
Reseed_skipped(r) == r

\* np.random.seed(42), the first statement of create_sample_data: the state
\* r the random source was in is discarded
Reseed(r) == Seeded(SEED)

\* the bundle create_sample_data returns, and the random source it leaves,
\* when it is called with the random source in state r
create_sample_data(r) ==
    LET r0 == Reseed(r)
        x_line == linspace(0, 10, LINE_POINTS)
        x_scatter == randn(r0, n_points)
        r1 == Advance(r0, n_points)
        noise == randn(r1, n_points)
        r2 == Advance(r1, n_points)
        colors_scatter == rand(r2, n_points)
        r3 == Advance(r2, n_points)
        sizes_scatter == uniform(r3, 50, 300, n_points)
        r4 == Advance(r3, n_points)
        hist_data == randn(r4, HIST_POINTS)
        r5 == Advance(r4, HIST_POINTS)
    IN  [bundle |->
            [x_line |-> x_line,
             y_sin |-> apply("sin", x_line),
             y_cos |-> apply("cos", x_line),
             x_scatter |-> x_scatter,
             y_scatter |-> [i \in 1..Len(x_scatter) |->
                               2 * x_scatter[i] + noise[i]],
             colors_scatter |-> colors_scatter,
             sizes_scatter |-> sizes_scatter,
             categories |-> <<"A", "B", "C", "D", "E">>,
             values |-> <<23, 45, 56, 78, 32>>,
             hist_data |-> hist_data,
             pie_labels |-> <<"Chocolate", "Vanilla", "Strawberry", "Mint">>,
             pie_sizes |-> <<30, 25, 20, 25>>],
         rng |-> r5]

----------------------------------------------------------------------------
(* pyplot and the figures.  A figure object is identified by the builder   *)
(* that created it; pyplot keeps the figures and which of them is current. *)
(* The builders act on a record st = [figs, gcf, rng, data] of the state    *)
(* they can touch; st.data is the bundle main() passes them.               *)

Builders ==
    <<"create_line_plot", "create_scatter_plot", "create_bar_chart",
      "create_histogram", "create_pie_chart", "create_subplot_grid",
      "create_advanced_plot">>

BuilderSet == {Builders[i] : i \in 1..Len(Builders)}

\* the keys of main()'s dict display, in the order they are written
PlotNames ==
    <<<<"L", "i", "n", "e", " ", "P", "l", "o", "t">>,
      <<"S", "c", "a", "t", "t", "e", "r", " ", "P", "l", "o", "t">>,
      <<"B", "a", "r", " ", "C", "h", "a", "r", "t">>,
      <<"H", "i", "s", "t", "o", "g", "r", "a", "m">>,
      <<"P", "i", "e", " ", "C", "h", "a", "r", "t">>,
      <<"S", "u", "b", "p", "l", "o", "t", " ", "G", "r", "i", "d">>,
      <<"A", "d", "v", "a", "n", "c", "e", "d", " ", "P", "l", "o", "t">>>>

\* pyplot has no current figure
NoFig == "none"

\* no figure object
NoFigure ==
    [owner |-> "none", figsize |-> <<0, 0>>, suptitle |-> "", axes |-> <<>>,
     tight |-> FALSE]

NewAxes ==
    [title |-> "", xlabel |-> "", ylabel |-> "", artists |-> <<>>,
     legend |-> FALSE, grid |-> FALSE, xlim |-> <<>>, ylim |-> <<>>]

\* plt.subplots(nrows, ncols, figsize=...) called by builder b: a new figure
\* with its axes, which becomes pyplot's current figure
subplots(st, b, nrows, ncols, figsize) ==
    [st EXCEPT
        !.figs[b] = [owner |-> b, figsize |-> figsize, suptitle |-> "",
                     axes |-> [i \in 1..(nrows * ncols) |-> NewAxes],
                     tight |-> FALSE],
        !.gcf = b]

\* plt.tight_layout(): gcf().tight_layout()
tight_layout(st) == [st EXCEPT !.figs[st.gcf].tight = TRUE]

\* plt.colorbar placing the colorbar in the current figure instead of the
\* mappable's
colorbar_current(st, owner, mappable, label) ==
    [st EXCEPT
        !.figs[st.gcf].axes =
            Append(@, [NewAxes EXCEPT
                          !.ylabel = label,
                          !.artists = <<[type |-> "colorbar",
                                         mappable |-> mappable]>>])]

\* plt.colorbar(mappable): gcf().colorbar(mappable).  With no ax or cax the
\* colorbar's axes is made in the figure of the mappable's axes (owner),
\* whichever figure is current; it carries the label set by cbar.set_label
colorbar(st, owner, mappable, label) ==
    [st EXCEPT
        !.figs[owner].axes =
            Append(@, [NewAxes EXCEPT
                          !.ylabel = label,
                          !.artists = <<[type |-> "colorbar",
                                         mappable |-> mappable]>>])]

RECURSIVE Sum(_)
Sum(s) == IF s = <<>> THEN 0 ELSE s[1] + Sum(Tail(s))

\* create_line_plot, after plt.subplots
line_plot_body(st) ==
    LET d == st.data IN
    [st EXCEPT !.figs["create_line_plot"].axes[1] =
        [@ EXCEPT
            !.artists = <<[type |-> "line", x |-> d.x_line, y |-> d.y_sin,
                           label |-> "sin(x)", color |-> "#1f77b4"],
                          [type |-> "line", x |-> d.x_line, y |-> d.y_cos,
                           label |-> "cos(x)", color |-> "#ff7f0e"]>>,
            !.title = "Trigonometric Functions",
            !.xlabel = "X values",
            !.ylabel = "Y values",
            !.legend = TRUE,
            !.grid = TRUE]]

\* the PathCollection ax.scatter returns in create_scatter_plot
scatter_mappable(d) ==
    [type |-> "scatter", x |-> d.x_scatter, y |-> d.y_scatter,
     c |-> d.colors_scatter, s |-> d.sizes_scatter, cmap |-> "viridis"]

\* create_scatter_plot, after plt.subplots and before plt.colorbar
scatter_plot_body(st) ==
    LET d == st.data IN
    [st EXCEPT !.figs["create_scatter_plot"].axes[1] =
        [@ EXCEPT
            !.artists = <<scatter_mappable(d)>>,
            !.title = "Scatter Plot with Color and Size Variations",
            !.xlabel = "X values",
            !.ylabel = "Y values"]]

\* create_bar_chart sorting the bundle's values in place before drawing them
bar_chart_body_inplace(st) ==
    LET sorted == <<23, 32, 45, 56, 78>>
    IN  [st EXCEPT
            !.data.values = sorted,
            !.figs["create_bar_chart"].axes[1].artists =
                <<[type |-> "bar", x |-> st.data.categories,
                   height |-> sorted]>>]

\* create_bar_chart, after plt.subplots: the bars, then one text per bar
bar_chart_body(st) ==
    LET d == st.data IN
    LET heights == d.values
        bars == [type |-> "bar", x |-> d.categories, height |-> heights,
                 color |-> <<"#ff9999", "#66b3ff", "#99ff99", "#ffcc99",
                             "#ff99cc">>]
        texts == [i \in 1..Len(heights) |->
                     [type |-> "text", x |-> i, y |-> heights[i] + 1,
                      s |-> IntToStr(heights[i])]]
    IN  [st EXCEPT !.figs["create_bar_chart"].axes[1] =
            [@ EXCEPT
                !.artists = <<bars>> \o texts,
                !.title = "Sample Bar Chart",
                !.xlabel = "Categories",
                !.ylabel = "Values"]]

\* create_histogram, after plt.subplots
histogram_body(st) ==
    LET d == st.data IN
    LET mean_val == <<"mean", d.hist_data>>
    IN  [st EXCEPT !.figs["create_histogram"].axes[1] =
            [@ EXCEPT
                !.artists = <<[type |-> "hist", x |-> d.hist_data, bins |-> 30],
                              [type |-> "axvline", x |-> mean_val,
                               label |-> <<"Mean: ", ".2f", mean_val>>]>>,
                !.title = "Normal Distribution Histogram",
                !.xlabel = "Value",
                !.ylabel = "Frequency",
                !.legend = TRUE]]

\* create_pie_chart, after plt.subplots
pie_chart_body(st) ==
    LET d == st.data IN
    LET total == Sum(d.pie_sizes)
    IN  [st EXCEPT !.figs["create_pie_chart"].axes[1] =
            [@ EXCEPT
                !.artists = <<[type |-> "pie", x |-> d.pie_sizes,
                               labels |-> d.pie_labels, startangle |-> 90,
                               colors |-> <<"#ff9999", "#66b3ff", "#99ff99",
                                            "#ffcc99">>,
                               autotexts |->
                                   [i \in 1..Len(d.pie_sizes) |->
                                       [fmt |-> "%1.1f%%",
                                        num |-> 100 * d.pie_sizes[i],
                                        den |-> total,
                                        fontweight |-> "bold"]]]>>,
                !.title = "Ice Cream Flavor Preferences"]]

\* create_subplot_grid, after plt.subplots and before plt.tight_layout: the
\* four axes; the third draws x and then y from the global random source
subplot_grid_body(st) ==
    LET x == randn(st.rng, n_points)
        r1 == Advance(st.rng, n_points)
        y == randn(r1, n_points)
        r2 == Advance(r1, n_points)
        xs == linspace(0, 10, LINE_POINTS)
    IN  [st EXCEPT
            !.rng = r2,
            !.figs["create_subplot_grid"] =
                [@ EXCEPT
                    !.suptitle = "Subplot Grid Example",
                    !.axes[1] = [@ EXCEPT
                        !.artists = <<[type |-> "line",
                                       x |-> <<"linspace", 0, "4*pi", LINE_POINTS>>,
                                       y |-> "sin(x)"]>>,
                        !.title = "Sine Wave", !.grid = TRUE],
                    !.axes[2] = [@ EXCEPT
                        !.artists = <<[type |-> "line",
                                       x |-> linspace(0, 5, LINE_POINTS),
                                       y |-> "exp(-x)"]>>,
                        !.title = "Exponential Decay", !.grid = TRUE],
                    !.axes[3] = [@ EXCEPT
                        !.artists = <<[type |-> "scatter", x |-> x, y |-> y]>>,
                        !.title = "Random Scatter", !.grid = TRUE],
                    !.axes[4] = [@ EXCEPT
                        !.artists = <<[type |-> "step", x |-> xs,
                                       y |-> [i \in 1..Len(xs) |->
                                               (xs[i] \div (LINE_POINTS - 1)) % 2]]>>,
                        !.title = "Step Function", !.grid = TRUE]]]

\* create_advanced_plot adding noise drawn from the global random source
advanced_plot_body_noisy(st) ==
    [st EXCEPT
        !.rng = Advance(@, 200),
        !.figs["create_advanced_plot"].axes[1].artists =
            <<[type |-> "line", x |-> linspace(0, 10, 200),
               y |-> randn(st.rng, 200), label |-> "Damped Sine"]>>]

\* create_advanced_plot, after plt.subplots
advanced_plot_body(st) ==
    LET x == linspace(0, 10, 200)
    IN  [st EXCEPT !.figs["create_advanced_plot"].axes[1] =
            [@ EXCEPT
                !.artists = <<[type |-> "line", x |-> x,
                               y |-> "sin(x)*exp(-x/5)", label |-> "Damped Sine"],
                              [type |-> "line", x |-> x,
                               y |-> "cos(x)*exp(-x/8)", label |-> "Damped Cosine"],
                              [type |-> "fill_between", x |-> x],
                              [type |-> "annotate", s |-> "Maximum Point",
                               xytext |-> <<4, "0.8">>],
                              [type |-> "text",
                               s |-> "Damped oscillations\nwith exponential decay"]>>,
                !.title = "Advanced Matplotlib Plot with Annotations",
                !.xlabel = "Time (s)",
                !.ylabel = "Amplitude",
                !.legend = TRUE,
                !.grid = TRUE,
                !.xlim = <<0, 10>>,
                !.ylim = <<-1, 1>>]]

\* the number of steps of builder b: plt.subplots, the body, and for two
\* builders a closing pyplot call (plt.colorbar, plt.tight_layout)
NSteps(b) ==
    IF b \in {"create_scatter_plot", "create_subplot_grid"} THEN 3 ELSE 2

\* plt.subplots as builder b calls it
BuilderSubplots(st, b) ==
    CASE b = "create_pie_chart" -> subplots(st, b, 1, 1, <<8, 8>>)
      [] b = "create_subplot_grid" -> subplots(st, b, 2, 2, <<15, 12>>)
      [] b = "create_advanced_plot" -> subplots(st, b, 1, 1, <<12, 8>>)
      [] OTHER -> subplots(st, b, 1, 1, <<10, 6>>)

\* step n of builder b on the process state st
BuilderStep(b, n, st) ==
    CASE n = 1 -> BuilderSubplots(st, b)
      [] n = 2 /\ b = "create_line_plot" -> line_plot_body(st)
      [] n = 2 /\ b = "create_scatter_plot" -> scatter_plot_body(st)
      [] n = 2 /\ b = "create_bar_chart" -> bar_chart_body(st)
      [] n = 2 /\ b = "create_histogram" -> histogram_body(st)
      [] n = 2 /\ b = "create_pie_chart" -> pie_chart_body(st)
      [] n = 2 /\ b = "create_subplot_grid" -> subplot_grid_body(st)
      [] n = 2 /\ b = "create_advanced_plot" -> advanced_plot_body(st)
      [] n = 3 /\ b = "create_scatter_plot" ->
            colorbar(st, b, scatter_mappable(st.data), "Color Scale")
      [] n = 3 /\ b = "create_subplot_grid" -> tight_layout(st)

\* builder b run from its first step to its return
BuilderCall(b, st) ==
    LET s1 == BuilderStep(b, 1, st)
        s2 == BuilderStep(b, 2, s1)
    IN  IF NSteps(b) = 3 THEN BuilderStep(b, 3, s2) ELSE s2

\* the builders of a sequence run one after the other
RECURSIVE RunBuilders(_, _)
RunBuilders(order, st) ==
    IF order = <<>> THEN st
    ELSE RunBuilders(Tail(order), BuilderCall(Head(order), st))

\* the process state the builders start from, given what create_sample_data
\* returned and left
Pyplot0(g) ==
    [figs |-> [b \in BuilderSet |-> NoFigure], gcf |-> NoFig, rng |-> g.rng,
     data |-> g.bundle]

----------------------------------------------------------------------------
(* main() *)

NoExc == [at |-> "none", k |-> 0]

\* d[key] = value on a dict kept as a sequence of <<key, value>> entries
DictSet(d, key, value) ==
    IF \E i \in 1..Len(d) : d[i][1] = key
      THEN [i \in 1..Len(d) |-> IF d[i][1] = key THEN <<key, value>> ELSE d[i]]
      ELSE Append(d, <<key, value>>)

\* what a file holds that was in the working directory before the run
OldContent == [fig |-> NoFigure, dpi |-> 0, bbox_inches |-> "none"]

\* fig.savefig(filename, dpi=300, bbox_inches='tight') on the directory dir
savefig(dir, filename, fig) ==
    [f \in (DOMAIN dir) \cup {filename} |->
        IF f = filename
          THEN [fig |-> fig, dpi |-> 300, bbox_inches |-> "tight"]
          ELSE dir[f]]

\* files that may be in the working directory when the program starts
OldFiles ==
    {<<"l", "i", "n", "e", "_", "p", "l", "o", "t", ".", "p", "n", "g">>,
     <<"h", "i", "s", "t", "o", "g", "r", "a", "m", ".", "p", "n", "g">>,
     <<"n", "o", "t", "e", "s", ".", "t", "x", "t">>}

InitCommon ==
    /\ pc = "start"
    /\ rng \in InitialRng
    /\ data = NoData
    /\ returned = <<>>
    /\ figs = [b \in BuilderSet |-> NoFigure]
    /\ gcf = NoFig
    /\ tpc = [b \in BuilderSet |-> 0]
    /\ plots = <<>>
    /\ idx = 0
    /\ writes = <<>>
    /\ stdout = <<>>
    /\ shown = FALSE
    /\ exc = NoExc
    /\ drawn = 0
    /\ calls = <<>>

Init ==
    /\ InitCommon
    /\ fs \in {[f \in S |-> OldContent] : S \in SUBSET OldFiles}

\* print("Generating matplotlib sample visualizations...")
PrintHeader ==
    /\ pc = "start"
    /\ stdout' = print(stdout, HeaderLine)
    /\ pc' = "generate"
    /\ UNCHANGED <<rng, data, returned, figs, gcf, tpc, plots, idx, fs, writes,
                   shown, exc, drawn, calls>>

\* data = create_sample_data()
CallCreateSampleData ==
    /\ pc = "generate"
    /\ LET g == create_sample_data(rng)
       IN  /\ data' = g.bundle
           /\ rng' = g.rng
           /\ returned' = Append(returned, g.bundle)
    /\ pc' = "build"
    /\ idx' = 1
    /\ calls' = Append(calls, "create_sample_data")
    /\ UNCHANGED <<figs, gcf, tpc, plots, fs, writes, stdout, shown, exc, drawn>>

\* the process state a builder acts on
PyplotState == [figs |-> figs, gcf |-> gcf, rng |-> rng, data |-> data]

\* one entry of the dict display: the idx-th builder is called and its
\* figure stored under the idx-th name
CallBuilder ==
    /\ pc = "build"
    /\ idx <= Len(Builders)
    /\ LET b == Builders[idx]
           st == BuilderCall(b, PyplotState)
       IN  /\ figs' = st.figs
           /\ gcf' = st.gcf
           /\ rng' = st.rng
           /\ data' = st.data
           /\ tpc' = [tpc EXCEPT ![b] = NSteps(b)]
           /\ plots' = DictSet(plots, PlotNames[idx], b)
    /\ IF idx = Len(Builders)
         THEN pc' = "save" /\ idx' = 1
         ELSE pc' = "build" /\ idx' = idx + 1
    /\ calls' = Append(calls, Builders[idx])
    /\ UNCHANGED <<returned, fs, writes, stdout, shown, exc, drawn>>

\* the loop's filename for the idx-th entry of plots
LoopFileName == FileName(plots[idx][1])

\* fig.savefig(filename, dpi=300, bbox_inches='tight') returns
SaveFig ==
    /\ pc = "save"
    /\ fs' = savefig(fs, LoopFileName, figs[plots[idx][2]])
    /\ writes' = Append(writes, LoopFileName)
    /\ pc' = "saved"
    /\ calls' = Append(calls, "savefig")
    /\ UNCHANGED <<rng, data, returned, figs, gcf, tpc, plots, idx, stdout,
                   shown, exc, drawn>>

\* a failed save caught and passed over: the loop goes on with its print
SaveFigFail_swallowed ==
    /\ pc = "save"
    /\ exc' = [at |-> "savefig", k |-> idx]
    /\ pc' = "saved"
    /\ calls' = Append(calls, "savefig")
    /\ UNCHANGED <<rng, data, returned, figs, gcf, tpc, plots, idx, fs, writes,
                   stdout, shown, drawn>>

\* a failed save that removes the files written so far before it propagates
SaveFigFail_rollback ==
    /\ pc = "save"
    /\ exc' = [at |-> "savefig", k |-> idx]
    /\ pc' = "crashed"
    /\ fs' = [f \in (DOMAIN fs) \ {writes[i] : i \in DOMAIN writes} |-> fs[f]]
    /\ writes' = <<>>
    /\ calls' = Append(calls, "savefig")
    /\ UNCHANGED <<rng, data, returned, figs, gcf, tpc, plots, idx, stdout,
                   shown, drawn>>

\* fig.savefig raises: nothing in main() catches it
SaveFigFail ==
    /\ pc = "save"
    /\ exc' = [at |-> "savefig", k |-> idx]
    /\ pc' = "crashed"
    /\ calls' = Append(calls, "savefig")
    /\ UNCHANGED <<rng, data, returned, figs, gcf, tpc, plots, idx, fs, writes,
                   stdout, shown, drawn>>

\* the progress line printed with the chart's name instead of the file name
PrintSaved_name ==
    /\ pc = "saved"
    /\ stdout' = print(stdout, SavedPrefix \o plots[idx][1])
    /\ IF idx = Len(plots)
         THEN pc' = "show" /\ idx' = idx
         ELSE pc' = "save" /\ idx' = idx + 1
    /\ UNCHANGED <<rng, data, returned, figs, gcf, tpc, plots, fs, writes,
                   shown, exc, drawn, calls>>

\* print(f"Saved: {filename}"), and the loop moves on
PrintSaved ==
    /\ pc = "saved"
    /\ stdout' = print(stdout, SavedPrefix \o LoopFileName)
    /\ IF idx = Len(plots)
         THEN pc' = "show" /\ idx' = idx
         ELSE pc' = "save" /\ idx' = idx + 1
    /\ UNCHANGED <<rng, data, returned, figs, gcf, tpc, plots, fs, writes,
                   shown, exc, drawn, calls>>

\* plt.show() called before the save loop instead of after it
Show_early ==
    /\ pc = "save"
    /\ idx = 1
    /\ ~ shown
    /\ shown' = TRUE
    /\ calls' = Append(calls, "show")
    /\ UNCHANGED <<pc, rng, data, returned, figs, gcf, tpc, plots, idx, fs,
                   writes, stdout, exc, drawn>>

\* plt.show() returns
Show ==
    /\ pc = "show"
    /\ shown' = TRUE
    /\ pc' = "summary"
    /\ calls' = Append(calls, "show")
    /\ UNCHANGED <<rng, data, returned, figs, gcf, tpc, plots, idx, fs, writes,
                   stdout, exc, drawn>>

\* plt.show() raises
ShowFail ==
    /\ pc = "show"
    /\ exc' = [at |-> "show", k |-> 0]
    /\ pc' = "crashed"
    /\ calls' = Append(calls, "show")
    /\ UNCHANGED <<rng, data, returned, figs, gcf, tpc, plots, idx, fs, writes,
                   stdout, shown, drawn>>

\* print("\nAll plots generated successfully!")
PrintSuccess ==
    /\ pc = "summary"
    /\ stdout' = print(stdout, SuccessText)
    /\ pc' = "files_saved"
    /\ UNCHANGED <<rng, data, returned, figs, gcf, tpc, plots, idx, fs, writes,
                   shown, exc, drawn, calls>>

\* print("Files saved:")
PrintFilesSaved ==
    /\ pc = "files_saved"
    /\ stdout' = print(stdout, FilesSavedText)
    /\ pc' = "list"
    /\ idx' = 1
    /\ UNCHANGED <<rng, data, returned, figs, gcf, tpc, plots, fs, writes,
                   shown, exc, drawn, calls>>

\* print(f"  - {filename}") for the idx-th key of plots
PrintListed ==
    /\ pc = "list"
    /\ stdout' = print(stdout, ListPrefix \o LoopFileName)
    /\ IF idx = Len(plots)
         THEN pc' = "done" /\ idx' = idx
         ELSE pc' = "list" /\ idx' = idx + 1
    /\ UNCHANGED <<rng, data, returned, figs, gcf, tpc, plots, fs, writes,
                   shown, exc, drawn, calls>>

Next ==
    \/ PrintHeader
    \/ CallCreateSampleData
    \/ CallBuilder
    \/ SaveFig
    \/ SaveFigFail
    \/ PrintSaved
    \/ Show
    \/ ShowFail
    \/ PrintSuccess
    \/ PrintFilesSaved
    \/ PrintListed

Spec == Init /\ [][Next]_vars

----------------------------------------------------------------------------
(* Properties of main() *)

\* the file names of section 6 of the specification, in insertion order
ExpectedFiles ==
    <<<<"l", "i", "n", "e", "_", "p", "l", "o", "t", ".", "p", "n", "g">>,
      <<"s", "c", "a", "t", "t", "e", "r", "_", "p", "l", "o", "t", ".", "p",
        "n", "g">>,
      <<"b", "a", "r", "_", "c", "h", "a", "r", "t", ".", "p", "n", "g">>,
      <<"h", "i", "s", "t", "o", "g", "r", "a", "m", ".", "p", "n", "g">>,
      <<"p", "i", "e", "_", "c", "h", "a", "r", "t", ".", "p", "n", "g">>,
      <<"s", "u", "b", "p", "l", "o", "t", "_", "g", "r", "i", "d", ".", "p",
        "n", "g">>,
      <<"a", "d", "v", "a", "n", "c", "e", "d", "_", "p", "l", "o", "t", ".",
        "p", "n", "g">>>>

SuccessLine ==
    <<"A", "l", "l", " ", "p", "l", "o", "t", "s", " ", "g", "e", "n", "e",
      "r", "a", "t", "e", "d", " ", "s", "u", "c", "c", "e", "s", "s", "f",
      "u", "l", "l", "y", "!">>

Range(s) == {s[i] : i \in DOMAIN s}

IsPrefix(p, s) == Len(p) <= Len(s) /\ SubSeq(s, 1, Len(p)) = p

NoDuplicates(s) == \A i, j \in DOMAIN s : i # j => s[i] # s[j]

AllBuilt == \A b \in BuilderSet : tpc[b] = NSteps(b)

\* C1: a run of main() that ends without a failure has written exactly seven
\* files, whose names are the seven of section 6, each the lowercased and
\* underscored chart name plus ".png"; the names are pairwise distinct, no
\* file is written twice, and each file holds its own chart's figure (none
\* was overwritten by another chart).
C1_SevenDistinctFiles ==
    /\ NoDuplicates(writes)
    /\ pc = "done" =>
        /\ Len(writes) = 7
        /\ Range(writes) = Range(ExpectedFiles)
        /\ Cardinality(Range(writes)) = 7
        /\ \A i \in 1..7 :
            /\ writes[i] = FileName(PlotNames[i])
            /\ writes[i] \in DOMAIN fs
            /\ fs[writes[i]].fig = figs[Builders[i]]
            /\ fs[writes[i]].fig.owner = Builders[i]

\* a complete run in a directory that already held line_plot.png and notes.txt
C1_Witness ==
    /\ pc = "done"
    /\ Len(writes) = 7
    /\ <<"n", "o", "t", "e", "s", ".", "t", "x", "t">> \in DOMAIN fs
    /\ Cardinality(DOMAIN fs) = 8

\* the calls of a complete run of main(), in order
ExpectedCalls ==
    <<"create_sample_data">> \o Builders \o [i \in 1..7 |-> "savefig"]
        \o <<"show">>

\* C2: main() runs its steps in a fixed order: create_sample_data once and
\* before any builder; each builder once, all seven before the first save;
\* the saves in insertion order; plt.show only after the seven saves; the
\* summary only after plt.show has returned.
C2_FixedOrder ==
    /\ IsPrefix(calls, ExpectedCalls)
    /\ IsPrefix(writes, ExpectedFiles)
    /\ Len(returned) <= 1
    /\ (\E b \in BuilderSet : tpc[b] > 0) => Len(returned) = 1
    /\ writes # <<>> => AllBuilt /\ Len(plots) = 7
    /\ (shown \/ "show" \in Range(calls)) => Len(writes) = 7
    /\ (SuccessLine \in Range(stdout) \/ FilesSavedText \in Range(stdout))
          => shown
    /\ pc = "done" => calls = ExpectedCalls

\* the summary has been printed in full
C2_Witness ==
    /\ pc = "done"
    /\ shown
    /\ Len(calls) = 16
    /\ SuccessLine \in Range(stdout)

\* C3: when persisting a figure fails, the failure ends the process: the
\* failed save is not retried, no later figure is saved, the figures are not
\* shown, and neither the success line nor the "Files saved:" summary is
\* printed.
C3_SaveFailureTerminates ==
    exc.at = "savefig" =>
        /\ pc = "crashed"
        /\ ~ ENABLED Next
        /\ Len(writes) = exc.k - 1
        /\ \A i \in exc.k..7 : FileName(PlotNames[i]) \notin Range(writes)
        /\ Len(SelectSeq(calls, LAMBDA c : c = "savefig")) = exc.k
        /\ ~ shown
        /\ "show" \notin Range(calls)
        /\ SuccessLine \notin Range(stdout)
        /\ FilesSavedText \notin Range(stdout)

\* the save of the fourth figure failed after three files were written
C3_Witness ==
    /\ exc.at = "savefig"
    /\ exc.k = 4
    /\ Len(writes) = 3

\* the lines "Saved: <filename>" for the first n files
SavedLines(n) == [i \in 1..n |-> SavedPrefix \o ExpectedFiles[i]]

\* the "Saved: " lines of standard output, in order
SavedOutput == SelectSeq(stdout, LAMBDA l : IsPrefix(SavedPrefix, l))

\* C4: without a failure standard output is the header line, then seven
\* "Saved: <filename>" lines, each printed after its file was persisted and
\* before the next file is, then the completion summary listing the seven
\* file names written, in the order they were saved; at least eight lines.
C4_StandardOutput ==
    /\ Len(SavedOutput) <= Len(writes)
    /\ Len(writes) <= Len(SavedOutput) + 1
    /\ \A i \in 1..Len(SavedOutput) : SavedOutput[i] = SavedPrefix \o writes[i]
    /\ pc = "save" => Len(SavedOutput) = Len(writes)
    /\ pc = "done" =>
        /\ stdout = <<HeaderLine>> \o SavedLines(7)
                      \o <<<<>>, SuccessLine, FilesSavedText>>
                      \o [i \in 1..7 |-> ListPrefix \o writes[i]]
        /\ Len(stdout) >= 8

\* a complete run: eighteen lines were printed
C4_Witness ==
    /\ pc = "done"
    /\ Len(stdout) = 18
    /\ Len(SavedOutput) = 7

\* C5: the five builders that take the bundle return a figure and leave
\* every entry of the bundle unchanged: the bundle stays equal to the one
\* create_sample_data returned, and each builder drew from that bundle.
C5_BundleUnchanged ==
    /\ pc \notin {"start", "generate"} => data = returned[1]
    /\ \A i \in 1..5 :
        tpc[Builders[i]] = NSteps(Builders[i]) =>
            /\ figs[Builders[i]] # NoFigure
            /\ figs[Builders[i]].owner = Builders[i]
            /\ plots[i] = <<PlotNames[i], Builders[i]>>
    /\ AllBuilt =>
        LET d == returned[1]
            art(b) == figs[b].axes[1].artists
        IN  /\ art("create_line_plot")[1].x = d.x_line
            /\ art("create_line_plot")[1].y = d.y_sin
            /\ art("create_line_plot")[2].y = d.y_cos
            /\ art("create_scatter_plot")[1].x = d.x_scatter
            /\ art("create_scatter_plot")[1].y = d.y_scatter
            /\ art("create_scatter_plot")[1].c = d.colors_scatter
            /\ art("create_scatter_plot")[1].s = d.sizes_scatter
            /\ art("create_bar_chart")[1].x = d.categories
            /\ art("create_bar_chart")[1].height = d.values
            /\ art("create_histogram")[1].x = d.hist_data
            /\ art("create_pie_chart")[1].x = d.pie_sizes
            /\ art("create_pie_chart")[1].labels = d.pie_labels

\* all seven builders have returned and the first figure is being saved
C5_Witness ==
    /\ pc = "save"
    /\ idx = 1
    /\ AllBuilt
    /\ Len(data.hist_data) = 1000

\* C10: when the save of the k-th figure fails, the earlier saves are kept:
\* exactly the first k-1 files have been written, in insertion order, each
\* still holding its figure, and standard output is the header line followed
\* by exactly k-1 "Saved:" lines naming those files in that order.
C10_EarlierSavesKept ==
    exc.at = "savefig" =>
        /\ exc.k \in 1..7
        /\ writes = SubSeq(ExpectedFiles, 1, exc.k - 1)
        /\ \A i \in 1..(exc.k - 1) :
            /\ ExpectedFiles[i] \in DOMAIN fs
            /\ fs[ExpectedFiles[i]] =
                   [fig |-> figs[Builders[i]], dpi |-> 300,
                    bbox_inches |-> "tight"]
        /\ \A f \in DOMAIN fs :
            f \notin Range(writes) => fs[f] = OldContent
        /\ stdout = <<HeaderLine>> \o SavedLines(exc.k - 1)

\* the save of the last figure failed after six files were written, in a
\* directory that already held a file of the failing name's sibling
C10_Witness ==
    /\ exc.at = "savefig"
    /\ exc.k = 7
    /\ Len(writes) = 6
    /\ Len(stdout) = 7

----------------------------------------------------------------------------
(* The functions called as a library: create_sample_data any number of     *)
(* times, with other draws from the global random source, by the caller or *)
(* by create_subplot_grid, before and between the calls.                   *)

InitLib ==
    /\ InitCommon
    /\ fs = [f \in {} |-> OldContent]

\* create_sample_data() called once more
LibCreateSampleData ==
    /\ pc = "start"
    /\ Len(returned) < MaxCalls
    /\ LET g == create_sample_data(rng)
       IN  /\ data' = g.bundle
           /\ rng' = g.rng
           /\ returned' = Append(returned, g.bundle)
    /\ calls' = Append(calls, "create_sample_data")
    /\ UNCHANGED <<pc, figs, gcf, tpc, plots, idx, fs, writes, stdout, shown,
                   exc, drawn>>

\* the caller draws n values from the global random source
LibDraw ==
    /\ pc = "start"
    /\ \E n \in 1..MaxDrawn :
        /\ drawn + n <= MaxDrawn
        /\ rng' = Advance(rng, n)
        /\ drawn' = drawn + n
    /\ calls' = Append(calls, "draw")
    /\ UNCHANGED <<pc, data, returned, figs, gcf, tpc, plots, idx, fs, writes,
                   stdout, shown, exc>>

\* create_subplot_grid() called (once)
LibSubplotGrid ==
    /\ pc = "start"
    /\ tpc["create_subplot_grid"] = 0
    /\ LET st == BuilderCall("create_subplot_grid", PyplotState)
       IN  /\ figs' = st.figs
           /\ gcf' = st.gcf
           /\ rng' = st.rng
           /\ data' = st.data
    /\ tpc' = [tpc EXCEPT !["create_subplot_grid"] = NSteps("create_subplot_grid")]
    /\ calls' = Append(calls, "create_subplot_grid")
    /\ UNCHANGED <<pc, returned, plots, idx, fs, writes, stdout, shown, exc,
                   drawn>>

NextGen ==
    \/ LibCreateSampleData
    \/ LibDraw
    \/ LibSubplotGrid

SpecGen == InitLib /\ [][NextGen]_vars

\* C6: every bundle create_sample_data returns has the fixed lengths 100
\* (x_line, y_sin, y_cos), 50 (the four scatter arrays), 5 (categories,
\* values), 1000 (hist_data) and 4 (pie_labels, pie_sizes), and pie sizes
\* summing to 100, whatever state the random source was in before the call.
C6_FixedLengths ==
    \A i \in DOMAIN returned :
        LET d == returned[i]
        IN  /\ Len(d.x_line) = 100
            /\ Len(d.y_sin) = 100
            /\ Len(d.y_cos) = 100
            /\ Len(d.x_scatter) = 50
            /\ Len(d.y_scatter) = 50
            /\ Len(d.colors_scatter) = 50
            /\ Len(d.sizes_scatter) = 50
            /\ Len(d.categories) = 5
            /\ Len(d.values) = 5
            /\ Len(d.hist_data) = 1000
            /\ Len(d.pie_labels) = 4
            /\ Len(d.pie_sizes) = 4
            /\ Sum(d.pie_sizes) = 100

\* a bundle was returned by a call made after the caller and
\* create_subplot_grid had drawn from the random source
C6_Witness ==
    /\ Len(returned) = 1
    /\ calls = <<"draw", "create_subplot_grid", "create_sample_data">>

\* C7: create_sample_data reseeds the global random source to 42 before it
\* draws, so any two invocations return bundles with identical contents,
\* whatever was drawn from the source before or between the calls: every
\* returned bundle is the one a freshly seeded source yields.
C7_Reproducible ==
    /\ \A i, j \in DOMAIN returned : returned[i] = returned[j]
    /\ \A i \in DOMAIN returned :
          returned[i] = create_sample_data(Seeded(SEED)).bundle
    /\ (calls # <<>> /\ calls[Len(calls)] = "create_sample_data")
          => rng = create_sample_data(Seeded(SEED)).rng

\* two bundles were returned with create_subplot_grid and a draw of the
\* caller between the two calls
C7_Witness ==
    /\ Len(returned) = 2
    /\ calls = <<"create_sample_data", "create_subplot_grid", "draw",
                 "create_sample_data">>

----------------------------------------------------------------------------
(* The seven builders run one after the other in any order, and the seven  *)
(* builders run in parallel, each after create_sample_data has returned.   *)

\* the run of main() up to the end of the dict display, from a random
\* source in state r
RefRun(r) == RunBuilders(Builders, Pyplot0(create_sample_data(r)))

\* the outcomes of the reference order: one for every state the random
\* source can start in
RefRuns == {RefRun(r) : r \in InitialRng}

\* builder b is called and returns
PermBuilder ==
    /\ pc = "build"
    /\ \E b \in BuilderSet :
        /\ tpc[b] = 0
        /\ LET st == BuilderCall(b, PyplotState)
           IN  /\ figs' = st.figs
               /\ gcf' = st.gcf
               /\ rng' = st.rng
               /\ data' = st.data
        /\ tpc' = [tpc EXCEPT ![b] = NSteps(b)]
        /\ calls' = Append(calls, b)
    /\ UNCHANGED <<pc, returned, plots, idx, fs, writes, stdout, shown, exc,
                   drawn>>

NextPerm ==
    \/ PrintHeader
    \/ CallCreateSampleData
    \/ PermBuilder

SpecPerm == InitLib /\ [][NextPerm]_vars

ParStep ==
    /\ pc = "build"
    /\ \E b \in BuilderSet :
        /\ tpc[b] < NSteps(b)
        /\ LET st == BuilderStep(b, tpc[b] + 1, PyplotState)
           IN  /\ figs' = st.figs
               /\ gcf' = st.gcf
               /\ rng' = st.rng
               /\ data' = st.data
        /\ tpc' = [tpc EXCEPT ![b] = @ + 1]
    /\ UNCHANGED <<pc, returned, plots, idx, fs, writes, stdout, shown, exc,
                   drawn, calls>>

NextPar ==
    \/ PrintHeader
    \/ CallCreateSampleData
    \/ ParStep

SpecPar == InitLib /\ [][NextPar]_vars

SansLayout(f) == [f EXCEPT !.tight = FALSE]

Grid == "create_subplot_grid"

====
